---- MODULE Spec2Model ----
(***************************************************************************)
(* Model of the shell of src/src/main.rs: the command-line tokenizer       *)
(* (handle_args, remove_unwanted, IterArgs), the command classifier        *)
(* (impl From<&str> for Cmd), the search of PATH (find_path), the          *)
(* execution of a command (Cmd::execute) and the read loop (main).         *)
(*                                                                         *)
(* A text is a sequence of characters, each a string.  Width gives the     *)
(* number of bytes of a character's encoding: chars().enumerate() counts   *)
(* characters, while len() and the slices &s[a..b] count bytes.            *)
(***************************************************************************)
EXTENDS Integers, Sequences, FiniteSets, TLC

VARIABLES
    whole,  \* IterArgs.whole: the line being tokenized
    start,  \* IterArgs.start: the cursor into whole
    toks,   \* the tokens next() has yielded
    spans,  \* the scans handle_args has made
    pc,     \* where the iteration stands
    cmd,    \* the Cmd built from the line
    sh,     \* the shell process: status, exit code, directory, output, children
    env,    \* the environment of the process: HOME, PATH, directories, files
    arg,    \* the arguments of a function applied on its own
    ret     \* what that function returned

vars == <<whole, start, toks, spans, pc, cmd, sh, env, arg, ret>>

---------------------------------------------------------------------------
(* Characters *)

SP == " "
TAB == "\t"
CR == "\r"
BS == "\\"
DQ == "\""
SQ == "'"

\* main.rs:261  ' ' | '\t' | '\r'
IsScanSpace(c) == c \in {SP, TAB, CR}

\* char::is_whitespace, as used by str::trim and str::trim_start (main.rs:14, 141)
IsWhitespace(c) == c \in {SP, TAB, CR, "\n", "\f"}

Min(a, b) == IF a <= b THEN a ELSE b

\* a character encoded in two bytes
Wide == "W2"

\* char::len_utf8
Width(c) == IF c = Wide THEN 2 ELSE 1

RECURSIVE ByteLen(_)
\* str::len: the length in bytes
ByteLen(s) == IF Len(s) = 0 THEN 0 ELSE Width(s[1]) + ByteLen(Tail(s))

RECURSIVE CharsWithin(_, _, _)
\* n plus the number of characters in the first off bytes of s, or -1 when
\* off is past the end of s or inside a character
CharsWithin(s, off, n) ==
    IF off = 0
    THEN n
    ELSE IF Len(s) = 0 \/ Width(s[1]) > off
         THEN -1
         ELSE CharsWithin(Tail(s), off - Width(s[1]), n + 1)

\* the number of characters in the first off bytes of s, or -1 when
\* str::is_char_boundary(off) is false
CharsIn(s, off) == CharsWithin(s, off, 0)

\* whether &s[off..] and &s[..off] are valid slices; they panic otherwise
IsBoundary(s, off) == CharsIn(s, off) >= 0

\* &s[from..]  (byte offset, a boundary of s)
SliceFrom(s, from) == SubSeq(s, CharsIn(s, from) + 1, Len(s))

\* &s[0..to]  (byte offset, a boundary of s)
SliceTo(s, to) == SubSeq(s, 1, CharsIn(s, to))

---------------------------------------------------------------------------
(* handle_args: the character scanner, main.rs:253-306.                    *)
(* The scanner state is [pos, i, remove]: pos is the number of characters  *)
(* already taken from the iterator, i the local `i`, remove the drop list. *)

RECURSIVE OuterLoop(_, _, _, _)
RECURSIVE DoubleQuoted(_, _, _, _)
RECURSIVE SingleQuoted(_, _, _, _)

\* mutant of EscapeOutside: the character after the backslash is not consumed
EscapeOutsideNoSkip(input, index, remove) ==
    [pos |-> index + 1, i |-> index + 1, remove |-> Append(remove, index)]

\* main.rs:266-270: '\\' => { remove.push(index); iter.next(); i += 1; }
EscapeOutside(input, index, remove) ==
    [pos |-> Min(index + 2, Len(input)), i |-> index + 1,
     remove |-> Append(remove, index)]

\* main.rs:281-282: the peeked character makes the backslash an escape
EscapesInDouble(v) == v \in {BS, DQ}

\* main.rs:273-290: the loop over the double-quoted region; pos is the
\* iterator position after the opening quote.
DoubleQuoted(input, pos, i, remove) ==
    IF pos >= Len(input)
    THEN [pos |-> pos, i |-> i, remove |-> remove]
    ELSE LET ii == pos
             v  == input[pos + 1]
         IN  CASE v = DQ ->
                    [pos |-> pos + 1, i |-> ii, remove |-> Append(remove, ii)]
               [] v = BS ->
                    IF pos + 1 < Len(input) /\ EscapesInDouble(input[pos + 2])
                    THEN DoubleQuoted(input, pos + 2, ii, Append(remove, ii))
                    ELSE DoubleQuoted(input, pos + 1, ii, remove)
               [] OTHER -> DoubleQuoted(input, pos + 1, ii, remove)

\* mutant of ClosesSingle: a double quote closes the region too
ClosesSingleOrDouble(v) == v \in {SQ, DQ}

\* main.rs:296: if v == '\''
ClosesSingle(v) == v = SQ

\* main.rs:294-300: the loop over the single-quoted region
SingleQuoted(input, pos, i, remove) ==
    IF pos >= Len(input)
    THEN [pos |-> pos, i |-> i, remove |-> remove]
    ELSE LET ii == pos
             v  == input[pos + 1]
         IN  IF ClosesSingle(v)
             THEN [pos |-> pos + 1, i |-> ii, remove |-> Append(remove, ii)]
             ELSE SingleQuoted(input, pos + 1, ii, remove)

\* mutant of AfterQuote: the scan stops behind the closing quote
AfterQuoteStop(input, s) ==
    [remove |-> s.remove, end |-> s.i + 1, pos |-> s.pos]

\* main.rs:278, 298: `break` leaves the region and the outer loop goes on
AfterQuote(input, s) == OuterLoop(input, s.pos, s.i, s.remove)

\* main.rs:258-305: while let Some((index, c)) = iter.next() { ... } *end = i + 1
OuterLoop(input, pos, i, remove) ==
    IF pos >= Len(input)
    THEN [remove |-> remove, end |-> i + 1, pos |-> pos]
    ELSE LET index == pos
             c     == input[pos + 1]
         IN  CASE IsScanSpace(c) ->
                    [remove |-> Append(remove, index), end |-> index + 1,
                     pos |-> pos + 1]
               [] c = BS ->
                    LET s == EscapeOutside(input, index, remove)
                    IN  OuterLoop(input, s.pos, s.i, s.remove)
               [] c = DQ ->
                    AfterQuote(input,
                        DoubleQuoted(input, pos + 1, index, Append(remove, index)))
               [] c = SQ ->
                    AfterQuote(input,
                        SingleQuoted(input, pos + 1, index, Append(remove, index)))
               [] OTHER -> OuterLoop(input, pos + 1, index, remove)

\* main.rs:253-306.  The caller passes end = 0 and an empty remove
\* (main.rs:191-193); the result also reports pos, the number of characters
\* taken from the iterator.
handle_args(input) ==
    IF Len(input) = 0
    THEN [remove |-> <<>>, end |-> 0, pos |-> 0]
    ELSE OuterLoop(input, 0, 0, <<>>)

---------------------------------------------------------------------------
(* remove_unwanted: the token cleaner, main.rs:216-252 *)

RECURSIVE LeadingRun(_, _, _)
\* main.rs:220-226: start counts the drop positions 0, 1, 2, ... at the front
LeadingRun(remove, k, st) ==
    IF k > Len(remove) \/ remove[k] # st
    THEN st
    ELSE LeadingRun(remove, k + 1, st + 1)

\* main.rs:227-233: `for i in remove.len() - 1..0` is an empty range, so the
\* body never runs and end stays value.len() - 1
TrailingEnd(value, remove) == ByteLen(value) - 1

RECURSIVE CopyKept(_, _, _, _, _)
\* main.rs:241-250: copy the characters of slice = value[start..end + 1],
\* skipping those whose index + start is the current element of
\* remove[start..]; k is the 1-based place of current_remove in remove
\* (Len(remove) + 1 when it is None).
CopyKept(slice, st, remove, index, k) ==
    IF index >= Len(slice)
    THEN <<>>
    ELSE IF k <= Len(remove) /\ remove[k] = index + st
         THEN CopyKept(slice, st, remove, index + 1, k + 1)
         ELSE <<slice[index + 1]>> \o CopyKept(slice, st, remove, index + 1, k)

Cleaned(text, owned) == [text |-> text, owned |-> owned, panic |-> FALSE]

\* the slice value[start..end + 1] does not start on a character boundary
SlicePanic == [text |-> <<>>, owned |-> FALSE, panic |-> TRUE]

\* mutant of remove_unwanted: nothing is dropped
remove_nothing(value, remove) == Cleaned(value, FALSE)

\* mutant of remove_unwanted: the drop positions at the front are stripped
\* and the others forgotten
remove_front_only(value, remove) ==
    Cleaned(SubSeq(value, LeadingRun(remove, 1, 0) + 1, Len(value)), FALSE)

\* main.rs:216-252; owned tells Cow::Owned from Cow::Borrowed
remove_unwanted(value, remove) ==
    IF Len(remove) = 0 \/ ByteLen(value) = 0
    THEN Cleaned(value, FALSE)
    ELSE LET st == LeadingRun(remove, 1, 0)
             en == TrailingEnd(value, remove)
             stripped == st + (ByteLen(value) - 1 - en)
         IN  IF stripped >= ByteLen(value)
             THEN Cleaned(<<>>, FALSE)
             ELSE IF ~IsBoundary(value, st)
                  THEN SlicePanic
                  ELSE IF stripped >= Len(remove)
                       THEN Cleaned(SliceFrom(SliceTo(value, en + 1), st), FALSE)
                       ELSE Cleaned(CopyKept(SliceFrom(SliceTo(value, en + 1), st),
                                             st, remove, 0, st + 1), TRUE)

---------------------------------------------------------------------------
(* IterArgs: the tokenizer, main.rs:174-213 *)

\* mutant of SkipsToken: an empty token is yielded like any other
SkipsNothing(got) == FALSE

\* main.rs:199: if got_str.is_empty() { continue; }
SkipsToken(got) == Len(got) = 0

\* mutant of Advance: the cursor stays where it is
AdvanceNot(st, end) == st

\* main.rs:195: self.start += end
Advance(st, end) == st + end

\* what one turn of the loop of next() leaves: kind is "Some" (tok is
\* yielded), "None", "continue" (the loop goes on) or "panic" (a slice at
\* main.rs:190, 194, 238 or 243 is out of range or not on a character
\* boundary); scans holds, when the scanner ran, the cursor before the turn,
\* the token_end and the number of characters the scanner took.
Turn(kind, tok, st, scans) ==
    [kind |-> kind, tok |-> tok, start |-> st, scans |-> scans]

\* main.rs:195-203: the cursor moves on; the cleaned text got is yielded,
\* skipped, or ends the iteration
Cleaning(w, st, sc, seen, got) ==
    CASE got.panic -> Turn("panic", <<>>, st, seen)
      [] Len(got.text) = 0 /\ sc.end >= ByteLen(w) ->
            Turn("None", <<>>, Advance(st, sc.end), seen)
      [] SkipsToken(got.text) ->
            Turn("continue", <<>>, Advance(st, sc.end), seen)
      [] OTHER -> Turn("Some", got.text, Advance(st, sc.end), seen)

\* main.rs:191-194: the scan sc of input, and the slice &input[0..end]
Scanning(w, st, input, sc, seen) ==
    IF ~IsBoundary(input, sc.end)
    THEN Turn("panic", <<>>, st, seen)
    ELSE Cleaning(w, st, sc, seen,
                  remove_unwanted(SliceTo(input, sc.end), sc.remove))

Scanned(w, st, input, sc) ==
    Scanning(w, st, input, sc,
             <<[from |-> st, end |-> sc.end, taken |-> sc.pos]>>)

\* main.rs:184-203: one turn of the loop of next() on IterArgs {whole, start}
IterArgsTurn(w, st) ==
    IF st >= ByteLen(w)
    THEN Turn("None", <<>>, st, <<>>)
    ELSE IF ~IsBoundary(w, st)
         THEN Turn("panic", <<>>, st, <<>>)
         ELSE Scanned(w, st, SliceFrom(w, st), handle_args(SliceFrom(w, st)))

RECURSIVE IterArgsNext(_, _, _)

\* main.rs:184, 199-200: after a turn t the loop goes on or next() returns
AfterTurn(w, scans, t) ==
    IF t.kind = "continue"
    THEN IterArgsNext(w, t.start, scans \o t.scans)
    ELSE Turn(t.kind, t.tok, t.start, scans \o t.scans)

\* main.rs:181-204: one call of next(): the turns of the loop up to a return.
\* scans collects the scans of the turns.
IterArgsNext(w, st, scans) == AfterTurn(w, scans, IterArgsTurn(w, st))

---------------------------------------------------------------------------
(* Cmd and impl From<&str> for Cmd: the classifier, main.rs:30-38, 139-157 *)

RECURSIVE TrimStart(_)
\* main.rs:141: value.trim_start()
TrimStart(s) ==
    IF Len(s) > 0 /\ IsWhitespace(s[1]) THEN TrimStart(Tail(s)) ELSE s

RECURSIVE TrimEnd(_)
TrimEnd(s) ==
    IF Len(s) > 0 /\ IsWhitespace(s[Len(s)])
    THEN TrimEnd(SubSeq(s, 1, Len(s) - 1))
    ELSE s

\* main.rs:14: line.trim().is_empty()
TrimIsEmpty(s) == Len(TrimEnd(TrimStart(s))) = 0

RECURSIVE Collect(_, _, _)

\* after the call r of next(): the token is pushed, or the collection ends
Collected(w, acc, r) ==
    CASE r.kind = "Some" -> Collect(w, r.start, Append(acc, r.tok))
      [] r.kind = "None" -> [ok |-> TRUE, toks |-> acc]
      [] OTHER -> [ok |-> FALSE, toks |-> acc]

\* Iterator::collect over IterArgs (main.rs:149, 153, 154): next() until None
Collect(w, st, acc) == Collected(w, acc, IterArgsNext(w, st, <<>>))

Digits == <<"0", "1", "2", "3", "4", "5", "6", "7", "8", "9">>

IsDigit(c) == \E d \in 1..10 : Digits[d] = c

DigitValue(c) == (CHOOSE d \in 1..10 : Digits[d] = c) - 1

RECURSIVE Magnitude(_, _)
\* the value of a run of decimal digits; -1 when a character is no digit or
\* the value is above i32::MAX
Magnitude(s, acc) ==
    IF Len(s) = 0
    THEN acc
    ELSE IF ~IsDigit(s[1])
         THEN -1
         ELSE IF acc > (2147483647 - DigitValue(s[1])) \div 10
              THEN -1
              ELSE Magnitude(Tail(s), acc * 10 + DigitValue(s[1]))

RECURSIVE StripZeros(_)
StripZeros(s) == IF Len(s) > 0 /\ s[1] = "0" THEN StripZeros(Tail(s)) ELSE s

\* the digits of -i32::MIN, the one magnitude valid only behind a minus sign
MinDigits == <<"2", "1", "4", "7", "4", "8", "3", "6", "4", "8">>

\* main.rs:147: code.parse().unwrap_or_default() for i32: an optional sign,
\* then at least one digit; anything else, or a value outside i32, gives 0
ParseOrDefault(s) ==
    LET neg  == Len(s) > 0 /\ s[1] = "-"
        body == IF Len(s) > 0 /\ s[1] \in {"-", "+"} THEN Tail(s) ELSE s
        m    == IF Len(body) = 0 THEN -1 ELSE Magnitude(body, 0)
    IN  CASE neg /\ StripZeros(body) = MinDigits -> (0 - 2147483647) - 1
          [] m < 0 -> 0
          [] neg -> 0 - m
          [] OTHER -> m

Word_exit == <<"e", "x", "i", "t">>
Word_echo == <<"e", "c", "h", "o">>
Word_type == <<"t", "y", "p", "e">>
Word_pwd  == <<"p", "w", "d">>
Word_cd   == <<"c", "d">>
Word_cat  == <<"c", "a", "t">>

\* The variants of enum Cmd (main.rs:30-38) as one record shape
MkCmd(tag, code, name, args) ==
    [kind |-> "cmd", tag |-> tag, code |-> code, name |-> name, args |-> args]

Panicked == [kind |-> "panic"]

\* main.rs:152: unwrap_or(Cow::Borrowed("~"))
CdDefault == <<"~">>

\* mutant of CollectArgs: the first argument is dropped
CollectArgsDropFirst(w, st) ==
    LET c == Collect(w, st, <<>>)
    IN  [ok |-> c.ok, toks |-> IF Len(c.toks) > 0 THEN Tail(c.toks) ELSE <<>>]

\* main.rs:149, 153, 154: cmd_args.collect()
CollectArgs(w, st) == Collect(w, st, <<>>)

\* main.rs:144-155: the match on the first token; second is the next call
\* of next(), rest what collect() gathers
Classify(first, second, rest) ==
    CASE first.tok = Word_exit ->
            IF second.kind = "panic"
            THEN Panicked
            ELSE MkCmd("Exit", ParseOrDefault(second.tok), <<>>, <<>>)
      [] first.tok = Word_echo ->
            IF rest.ok THEN MkCmd("Echo", 0, <<>>, rest.toks) ELSE Panicked
      [] first.tok = Word_type ->
            IF second.kind = "panic"
            THEN Panicked
            ELSE MkCmd("Type", 0, second.tok, <<>>)
      [] first.tok = Word_pwd -> MkCmd("Pwd", 0, <<>>, <<>>)
      [] first.tok = Word_cd ->
            CASE second.kind = "panic" -> Panicked
              [] second.kind = "Some" -> MkCmd("Cd", 0, second.tok, <<>>)
              [] OTHER -> MkCmd("Cd", 0, CdDefault, <<>>)
      [] first.tok = Word_cat ->
            IF rest.ok THEN MkCmd("Cat", 0, <<>>, rest.toks) ELSE Panicked
      [] OTHER ->
            IF rest.ok THEN MkCmd("Other", 0, first.tok, rest.toks) ELSE Panicked

\* main.rs:143: cmd_args.next().unwrap() panics on None
Unwrapped(value, first) ==
    IF first.kind # "Some"
    THEN Panicked
    ELSE Classify(first, IterArgsNext(value, first.start, <<>>),
                  CollectArgs(value, first.start))

\* main.rs:139-157.  A panic is the unwrap of None at main.rs:143 or a slice
\* out of range inside IterArgs::next.
CmdFrom(line) ==
    Unwrapped(TrimStart(line), IterArgsNext(TrimStart(line), 0, <<>>))

---------------------------------------------------------------------------
(* find_path: the search of PATH, main.rs:159-172 *)

NL == "\n"

None == [some |-> FALSE]

Some(v) == [some |-> TRUE, v |-> v]

\* one directory of PATH: its name, whether fs::read_dir can read it, and the
\* names of its entries
Dir(name, readable, entries) ==
    [name |-> name, readable |-> readable, entries |-> entries]

RECURSIVE find_path(_, _)
\* main.rs:159-172, dirs being env::var("PATH") split at ':'.  An unreadable
\* directory ends the search: fs::read_dir(path).ok()? returns None from
\* find_path (main.rs:162).  A match returns dir.path() (main.rs:167).
find_path(dirs, value) ==
    IF Len(dirs) = 0
    THEN None
    ELSE IF ~dirs[1].readable
         THEN None
         ELSE IF value \in dirs[1].entries
              THEN Some(dirs[1].name \o <<"/">> \o value)
              ELSE find_path(Tail(dirs), value)

---------------------------------------------------------------------------
(* Display for Cmd and Cmd::execute, main.rs:40-137 *)

Lit_is_a_shell_builtin == <<SP, "i", "s", SP, "a", SP, "s", "h", "e", "l", "l", SP, "b", "u", "i", "l", "t", "i", "n">>
Lit_is == <<SP, "i", "s", SP>>
Lit_not_found == <<":", SP, "n", "o", "t", SP, "f", "o", "u", "n", "d">>
Lit_command_not_found == <<":", SP, "c", "o", "m", "m", "a", "n", "d", SP, "n", "o", "t", SP, "f", "o", "u", "n", "d">>
Lit_cd == <<"c", "d", ":", SP>>
Lit_no_such == <<":", SP, "N", "o", SP, "s", "u", "c", "h", SP, "f", "i", "l", "e", SP, "o", "r", SP, "d", "i", "r", "e", "c", "t", "o", "r", "y">>
Prompt == <<"$", SP>>

\* main.rs:61-65: !matches!(self, Self::Other(_, _) | Self::Cat(_))
is_builtin(c) == c.tag \notin {"Other", "Cat"}

\* main.rs:49-55: found is find_path(cmd)
DisplayOther(name, found) ==
    IF found.some THEN name \o Lit_is \o found.v ELSE name \o Lit_not_found

\* main.rs:40-59: the text of "{}" for a Cmd
Display(c, dirs) ==
    CASE c.tag = "Exit" -> Word_exit \o Lit_is_a_shell_builtin
      [] c.tag = "Echo" -> Word_echo \o Lit_is_a_shell_builtin
      [] c.tag = "Type" -> Word_type \o Lit_is_a_shell_builtin
      [] c.tag = "Pwd" -> Word_pwd \o Lit_is_a_shell_builtin
      [] c.tag = "Cd" -> Word_cd \o Lit_is_a_shell_builtin
      [] c.tag = "Cat" -> Word_cat \o Lit_is_a_shell_builtin
      [] OTHER -> DisplayOther(c.name, find_path(dirs, c.name))

RECURSIVE Join(_, _)
\* [T]::join(sep) (main.rs:130) and the loop of main.rs:72-79
Join(ts, sep) ==
    CASE Len(ts) = 0 -> <<>>
      [] Len(ts) = 1 -> ts[1]
      [] OTHER -> ts[1] \o sep \o Join(Tail(ts), sep)

\* main.rs:130: .arg(args.join(" ")): the arguments the child is started with
Argv(args) == <<Join(args, <<SP>>)>>

\* env::var("HOME") is unset
HomeUnset == [some |-> FALSE]

\* what execute leaves: how it returned, the process's exit code when it ended
\* the process, the current directory, what it wrote to stdout, and the
\* children it started
Outcome(status, code, cwd, wrote, children) ==
    [status |-> status, code |-> code, cwd |-> cwd, wrote |-> wrote,
     children |-> children]

\* execute returned Ok(())
Done(cwd, wrote, children) == Outcome("running", 0, cwd, wrote, children)

\* execute returned Err: main returns it (main.rs:16), the process ends with code 1
Failed(cwd, wrote) == Outcome("failed", 1, cwd, wrote, <<>>)

\* a panic in execute: the process ends with code 101
Crashed(cwd) == Outcome("crashed", 101, cwd, <<>>, <<>>)

RECURSIVE Cat(_, _, _, _)
\* main.rs:109-126: the files in order; files maps a path that opens to its
\* content.  fs::File::open(path)? returns the error from execute.
Cat(paths, files, cwd, sofar) ==
    IF Len(paths) = 0
    THEN Done(cwd, sofar, <<>>)
    ELSE IF paths[1] \notin DOMAIN files
         THEN Failed(cwd, sofar)
         ELSE Cat(Tail(paths), files, cwd, sofar \o files[paths[1]])

\* mutant of ExitWith: the process ends with code 0 whatever the argument
ExitZero(code) == 0

\* main.rs:70: std::process::exit(*code)
ExitWith(code) == code

\* main.rs:86-95: inner is Self::from(arg), found is find_path(arg)
ExecuteType(name, cwd, dirs, inner, found) ==
    CASE inner = Panicked -> Crashed(cwd)
      [] is_builtin(inner) -> Done(cwd, Display(inner, dirs) \o <<NL>>, <<>>)
      [] found.some -> Done(cwd, name \o Lit_is \o found.v \o <<NL>>, <<>>)
      [] OTHER -> Done(cwd, name \o Lit_not_found \o <<NL>>, <<>>)

\* main.rs:102-107
ExecuteCd(path, cwd, e) ==
    IF path = <<"~">>
    THEN CASE ~e.home.some -> Crashed(cwd)
           [] e.home.v \in e.dirs -> Done(e.home.v, <<>>, <<>>)
           [] OTHER -> Failed(cwd, <<>>)
    ELSE IF path \in e.dirs
         THEN Done(path, <<>>, <<>>)
         ELSE Done(cwd, Lit_cd \o path \o Lit_no_such \o <<NL>>, <<>>)

\* main.rs:128-132: found is find_path(cmd)
ExecuteOther(name, args, cwd, found) ==
    IF found.some
    THEN Done(cwd, <<>>, <<[path |-> found.v, argv |-> Argv(args)]>>)
    ELSE Done(cwd, name \o Lit_command_not_found \o <<NL>>, <<>>)

\* main.rs:67-137: execute on a Cmd, in directory cwd and environment e
execute(c, cwd, e) ==
    CASE c.tag = "Exit" -> Outcome("exited", ExitWith(c.code), cwd, <<>>, <<>>)
      [] c.tag = "Echo" -> Done(cwd, Join(c.args, <<SP>>) \o <<NL>>, <<>>)
      [] c.tag = "Type" ->
            ExecuteType(c.name, cwd, e.path, CmdFrom(c.name), find_path(e.path, c.name))
      [] c.tag = "Pwd" -> Done(cwd, cwd \o <<NL>>, <<>>)
      [] c.tag = "Cd" -> ExecuteCd(c.name, cwd, e)
      [] c.tag = "Cat" -> Cat(c.args, e.files, cwd, <<>>)
      [] OTHER -> ExecuteOther(c.name, c.args, cwd, find_path(e.path, c.name))

---------------------------------------------------------------------------
(* Inputs *)

MaxLen == 5

MaxArgs == 2

Alphabet == {"a", "b", SP, BS, DQ, SQ}

\* every line of at most MaxLen characters over Alphabet
BoundedLines == UNION {[1..n -> Alphabet] : n \in 0..MaxLen}

Verbs == {Word_exit, Word_echo, Word_type, Word_pwd, Word_cd, Word_cat,
          <<"l", "s">>}

\* arguments as typed: a word, a quoted word with a blank, a number, and
\* two redirection operators
Pieces == {<<"a">>, <<SQ, "b", SP, "c", SQ>>, <<"7">>, <<">">>,
           <<"2", ">", ">">>}

RECURSIVE JoinArgs(_)
JoinArgs(ps) == IF Len(ps) = 0 THEN <<>> ELSE <<SP>> \o ps[1] \o JoinArgs(Tail(ps))

\* a verb followed by at most MaxArgs arguments, one blank before each
CommandLines ==
    {v \o JoinArgs(ps) : v \in Verbs, ps \in UNION {[1..n -> Pieces] : n \in 0..MaxArgs}}

\* the scenarios of the specification and of the tests, and a few more lines
ScenarioLines == {
    <<"e", "c", "h", "o", SP, "h", "e", "l", "l", "o", SP, SP, SP, "w", "o", "r", "l", "d", SQ, "h", "i", "i", SQ>>,
    <<"c", "d", SP, SP, SP, "t", "m", "p", "/">>,
    <<"e", "x", "i", "t", SP, "1", "0", "0">>,
    <<"m", "y", "-", "c", "m", "d", SP, "t", "m", "p", "/", SP, "h", "e", "l", "l", "o", ".", "t", "x", "t", SP, SQ, "a", "r", "g", SP, SP, SP, SP, "1", SQ>>,
    <<"e", "c", "h", "o", SP, "h", "i", SP, ">", SP, "o", "u", "t", ".", "t", "x", "t", SP, ">", ">", SP, "o", "u", "t", "2", ".", "t", "x", "t">>,
    <<"e", "c", "h", "o", SP, "a", SP, "1", ">", SP, "o">>,
    <<"c", "a", "t", SP, "a", SP, "1", ">", ">", SP, "o">>,
    <<"l", "s", SP, "2", ">", SP, "o", SP, "a">>,
    <<"l", "s", SP, ">", ">", SP, "o">>,
    <<SP, SP, "p", "w", "d">>,
    <<SP, "c", "d">>,
    <<"t", "y", "p", "e">>,
    <<"e", "c", "h", "o">>,
    <<"e", "x", "i", "t">>,
    <<"e", "x", "i", "t", SP, "-", "1", SP, "a">>,
    <<"p", "w", "d", SP, "a", BS>>,
    <<"e", "c", "h", "o", TAB, "a">>,
    <<"e", "c", "h", "o", SP, DQ, "a", DQ, SQ, "b", SQ>>,
    <<"e", "c", "h", "o", SP, SQ, "a", SQ, DQ, "b", DQ, "c">>,
    <<"e", "c", "h", "o", SP, "a", BS>>
}

Lines == BoundedLines \cup CommandLines \cup ScenarioLines

---------------------------------------------------------------------------
(* Inputs of the shell *)

MaxLines == 2

Word_ls == <<"l", "s">>

\* directories: the one the shell starts in, two of PATH, HOME, one more
\* that exists and one that does not
StartDir == <<"/">>
Dir_bin == <<"/", "b">>
Dir_usr == <<"/", "u">>
Dir_home == <<"/", "h">>
Dir_tmp == <<"/", "d">>
Dir_gone == <<"/", "n">>

\* the file that opens, and its content
File_f == <<"f">>
Content_f == <<"x", NL>>

\* settings of PATH: ls in the first directory; an unreadable directory before
\* the one that holds ls; a directory without ls before it; an empty PATH
PathSettings == {
    <<Dir(Dir_bin, TRUE, {Word_ls})>>,
    <<Dir(Dir_gone, FALSE, {}), Dir(Dir_bin, TRUE, {Word_ls})>>,
    <<Dir(Dir_usr, TRUE, {}), Dir(Dir_bin, TRUE, {Word_ls})>>,
    <<>>
}

\* HOME is unset, names a directory, or names a directory that does not exist
Homes == {HomeUnset, Some(Dir_home), Some(Dir_gone)}

Envs == {[home |-> h, path |-> p,
          dirs |-> {StartDir, Dir_bin, Dir_usr, Dir_home, Dir_tmp},
          files |-> (File_f :> Content_f)] : h \in Homes, p \in PathSettings}

\* the lines typed at the prompt
ShellLines == {
    <<"e", "x", "i", "t">>,   \* exit
    <<"e", "x", "i", "t", SP, "7">>,   \* exit 7
    <<"e", "x", "i", "t", SP, "x">>,   \* exit x
    <<"e", "x", "i", "t", SP, "7", SP, "a">>,   \* exit 7 a
    <<"e", "x", "i", "t", SP, "-", "1">>,   \* exit -1
    <<"e", "x", "i", "t", SP, SQ, "a", SP, "b", SQ, SP, "3">>,   \* exit 'a b' 3
    <<"t", "y", "p", "e">>,   \* type
    <<"t", "y", "p", "e", SP, "l", "s">>,   \* type ls
    <<"t", "y", "p", "e", SP, "e", "c", "h", "o">>,   \* type echo
    <<"t", "y", "p", "e", SP, SQ, "l", "s", SP, "x", SQ>>,   \* type 'ls x'
    <<"t", "y", "p", "e", SP, SQ, "e", "c", "h", "o", SP, "x", SQ>>,   \* type 'echo x'
    <<"t", "y", "p", "e", SP, "c", "a", "t">>,   \* type cat
    <<"t", "y", "p", "e", SP, "a", BS, SQ, "b">>,   \* type abackslash 'b
    <<"c", "d">>,   \* cd
    <<"c", "d", SP, "~">>,   \* cd ~
    <<"c", "d", SP, "/", "d">>,   \* cd /d
    <<"c", "d", SP, "/", "n">>,   \* cd /n
    <<"c", "a", "t", SP, "f">>,   \* cat f
    <<"c", "a", "t", SP, "g">>,   \* cat g
    <<"c", "a", "t", SP, "f", SP, "g">>,   \* cat f g
    <<"c", "a", "t">>,   \* cat
    <<"l", "s">>,   \* ls
    <<"l", "s", SP, "a", SP, "b">>,   \* ls a b
    <<"l", "s", SP, SQ, "a", SP, "b", SQ>>,   \* ls 'a b'
    <<"l", "s", SP, "a", SP, SQ, "b", SP, "c", SQ>>,   \* ls a 'b c'
    <<"e", "c", "h", "o", SP, "a", SP, SP, "b">>,   \* echo a  b
    <<"p", "w", "d">>,   \* pwd
    <<SP, SP>>,   \*   
    <<"n", "o", SP, "a">>
}

---------------------------------------------------------------------------
(* The state machine *)

NoCmd == [kind |-> "pending"]

\* the parts of the state a specification does not use
Unused == [kind |-> "unused"]

\* IterArgs::new (main.rs:207-212) on an input line; Cmd::from not yet called
Init ==
    /\ whole \in Lines
    /\ start = 0
    /\ toks = <<>>
    /\ spans = <<>>
    /\ pc = "iterating"
    /\ cmd = NoCmd
    /\ sh = Unused
    /\ env = Unused
    /\ arg = Unused
    /\ ret = Unused

\* One call of IterArgs::next (main.rs:181-204), as collect() makes them
Next_ ==
    /\ pc = "iterating"
    /\ \E r \in {IterArgsNext(whole, start, <<>>)} :
           /\ start' = r.start
           /\ spans' = spans \o r.scans
           /\ toks' = IF r.kind = "Some" THEN Append(toks, r.tok) ELSE toks
           /\ pc' = CASE r.kind = "Some" -> "iterating"
                      [] r.kind = "None" -> "exhausted"
                      [] OTHER -> "panicked"
    /\ UNCHANGED <<whole, cmd, sh, env, arg, ret>>

\* Cmd::from on the line (main.rs:139-157)
From ==
    /\ cmd = NoCmd
    /\ cmd' = CmdFrom(whole)
    /\ UNCHANGED <<whole, start, toks, spans, pc, sh, env, arg, ret>>

Next == Next_ \/ From

Spec == Init /\ [][Next]_vars

---------------------------------------------------------------------------
(* The tokenizer turn by turn *)

\* One turn of the loop of IterArgs::next (main.rs:184-203): the remainder is
\* scanned once; a token is yielded (the caller then calls next() again), the
\* loop goes on, the iteration ends, or a slice panics
Scan ==
    /\ pc = "iterating"
    /\ \E t \in {IterArgsTurn(whole, start)} :
           /\ start' = t.start
           /\ spans' = spans \o t.scans
           /\ toks' = IF t.kind = "Some" THEN Append(toks, t.tok) ELSE toks
           /\ pc' = CASE t.kind \in {"Some", "continue"} -> "iterating"
                      [] t.kind = "None" -> "exhausted"
                      [] OTHER -> "panicked"
    /\ UNCHANGED <<whole, cmd, sh, env, arg, ret>>

SpecScan == Init /\ [][Scan]_vars

---------------------------------------------------------------------------
(* The tokenizer on lines with characters of more than one byte *)

MaxWide == 4

WideAlphabet == {"a", Wide, SP, SQ, BS}

\* every line of at most MaxWide characters that holds a two-byte character
WideLines ==
    {l \in UNION {[1..n -> WideAlphabet] : n \in 1..MaxWide} :
        \E k \in 1..Len(l) : l[k] = Wide}

\* IterArgs::new (main.rs:207-212) on such a line
InitWide ==
    /\ whole \in WideLines
    /\ start = 0
    /\ toks = <<>>
    /\ spans = <<>>
    /\ pc = "iterating"
    /\ cmd = NoCmd
    /\ sh = Unused
    /\ env = Unused
    /\ arg = Unused
    /\ ret = Unused

SpecWide == InitWide /\ [][Scan]_vars

---------------------------------------------------------------------------
(* The shell: main, main.rs:6-22 *)

\* main.rs:7-10: the first prompt is written; no line is read yet.  out holds
\* what was written to stdout, piece by piece: a prompt, then for each line
\* read what its execution wrote, and the prompt after it.
ShellInit ==
    /\ sh = [status |-> "running", code |-> 0, cwd |-> StartDir,
             out |-> <<Prompt>>, children |-> <<>>, nread |-> 0]
    /\ env \in Envs
    /\ whole = <<>>
    /\ start = 0
    /\ toks = <<>>
    /\ spans = <<>>
    /\ pc = "reading"
    /\ cmd = NoCmd
    /\ arg = Unused
    /\ ret = Unused

\* main.rs:12-20: one turn of the loop: a line is read; unless it is blank
\* the Cmd is built from it and executed; the prompt is written.  A panic or
\* an Err from execute ends the process before the prompt.
ReadLine ==
    /\ sh.status = "running"
    /\ sh.nread < MaxLines
    /\ \E line \in ShellLines :
          \E c \in {IF TrimIsEmpty(line) THEN NoCmd ELSE CmdFrom(line)} :
             \E o \in {CASE c = NoCmd -> Done(sh.cwd, <<>>, <<>>)
                         [] c = Panicked -> Crashed(sh.cwd)
                         [] OTHER -> execute(c, sh.cwd, env)} :
                /\ whole' = line
                /\ cmd' = c
                /\ sh' = [status |-> o.status, code |-> o.code, cwd |-> o.cwd,
                          out |-> sh.out \o <<o.wrote>> \o
                                  (IF o.status = "running" THEN <<Prompt>> ELSE <<>>),
                          children |-> sh.children \o o.children,
                          nread |-> sh.nread + 1]
    /\ UNCHANGED <<start, toks, spans, pc, env, arg, ret>>

\* main.rs:12, 21: stdin is at its end: main returns Ok(())
Eof ==
    /\ sh.status = "running"
    /\ sh' = [sh EXCEPT !.status = "ended"]
    /\ UNCHANGED <<whole, start, toks, spans, pc, cmd, env, arg, ret>>

main == ReadLine \/ Eof

SpecShell == ShellInit /\ [][main]_vars

---------------------------------------------------------------------------
(* find_path applied on its own *)

MaxDirs == 2

\* the names looked for, and found in the directories
Programs == {Word_ls, <<"a">>}

\* the name of the k-th directory of PATH
DirName(k) == <<"/", Digits[k + 1]>>

\* every PATH of at most MaxDirs directories, each readable or not and
\* holding any of the Programs
PathLists ==
    UNION {{[k \in 1..n |-> Dir(DirName(k), f[k].readable, f[k].entries)] :
               f \in [1..n -> [readable : BOOLEAN, entries : SUBSET Programs]]} :
           n \in 0..MaxDirs}

\* the function has not returned yet
NoRet == [kind |-> "pending"]

InitFindPath ==
    /\ arg \in [dirs : PathLists, value : Programs]
    /\ ret = NoRet
    /\ whole = <<>>
    /\ start = 0
    /\ toks = <<>>
    /\ spans = <<>>
    /\ pc = "calling"
    /\ cmd = NoCmd
    /\ sh = Unused
    /\ env = Unused

\* find_path(value) under the PATH arg.dirs (main.rs:159-172)
CallFindPath ==
    /\ ret = NoRet
    /\ ret' = find_path(arg.dirs, arg.value)
    /\ UNCHANGED <<whole, start, toks, spans, pc, cmd, sh, env, arg>>

SpecFindPath == InitFindPath /\ [][CallFindPath]_vars

---------------------------------------------------------------------------
(* remove_unwanted applied on its own *)

MaxRaw == 3

\* every text of at most MaxRaw characters
RawTexts == UNION {[1..n -> {"a", "b", "c"}] : n \in 0..MaxRaw}

RECURSIVE Ascending(_)
\* the elements of a set of numbers in ascending order
Ascending(S) ==
    IF S = {}
    THEN <<>>
    ELSE LET m == CHOOSE x \in S : \A y \in S : x <= y
         IN  <<m>> \o Ascending(S \ {m})

\* every strictly ascending list of positions, up to one past the end of the
\* longest text
DropLists == {Ascending(S) : S \in SUBSET (0..MaxRaw + 1)}

InitRemoveUnwanted ==
    /\ arg \in [value : RawTexts, remove : DropLists]
    /\ ret = NoRet
    /\ whole = <<>>
    /\ start = 0
    /\ toks = <<>>
    /\ spans = <<>>
    /\ pc = "calling"
    /\ cmd = NoCmd
    /\ sh = Unused
    /\ env = Unused

\* remove_unwanted(value, &remove) (main.rs:216-252)
CallRemoveUnwanted ==
    /\ ret = NoRet
    /\ ret' = remove_unwanted(arg.value, arg.remove)
    /\ UNCHANGED <<whole, start, toks, spans, pc, cmd, sh, env, arg>>

SpecRemoveUnwanted == InitRemoveUnwanted /\ [][CallRemoveUnwanted]_vars

---------------------------------------------------------------------------
(* Vocabulary of the claims *)

IsOrdinary(c) == c \notin {SP, TAB, CR, BS, DQ, SQ}

IsPlain(s) == \A k \in 1..Len(s) : IsOrdinary(s[k])

RECURSIVE PlainPrefixLen(_)
\* the number of ordinary characters a text starts with
PlainPrefixLen(s) ==
    IF Len(s) > 0 /\ IsOrdinary(s[1]) THEN 1 + PlainPrefixLen(Tail(s)) ELSE 0

\* the token list that holds text as its only token, or nothing when empty
OneToken(text) == IF Len(text) = 0 THEN <<>> ELSE <<text>>

RECURSIVE SumEnds(_)
SumEnds(ss) == IF Len(ss) = 0 THEN 0 ELSE ss[1].end + SumEnds(Tail(ss))

Finished == pc # "iterating"

---------------------------------------------------------------------------
\* C1: iterating the tokenizer to exhaustion never fails; the cursor never
\* passes the end of the line, no span reaches past the end of the remaining
\* input, every scan takes exactly the characters of its span (none skipped,
\* none scanned twice), and at the end the spans sum to the length of the line.
C1_SpansCoverLine ==
    /\ pc # "panicked"
    /\ start <= Len(whole)
    /\ \A k \in 1..Len(spans) : spans[k].taken = spans[k].end
    /\ SumEnds(spans) = start
    /\ pc = "exhausted" => SumEnds(spans) = Len(whole)

---------------------------------------------------------------------------
RECURSIVE DoubleQuotedText(_)
\* What the claim says of the text behind an opening double quote: the pairs
\* \\ and \" give \ and ", every other character (a lone backslash too) is
\* kept, and the region ends at the first unescaped double quote or at the
\* end of the input.  rest is what follows the closing quote.
DoubleQuotedText(s) ==
    IF Len(s) = 0
    THEN [text |-> <<>>, rest |-> <<>>, closed |-> FALSE]
    ELSE IF s[1] = DQ
         THEN [text |-> <<>>, rest |-> Tail(s), closed |-> TRUE]
         ELSE IF s[1] = BS /\ Len(s) >= 2 /\ s[2] \in {BS, DQ}
              THEN LET r == DoubleQuotedText(SubSeq(s, 3, Len(s)))
                   IN  [r EXCEPT !.text = <<s[2]>> \o @]
              ELSE LET r == DoubleQuotedText(Tail(s))
                   IN  [r EXCEPT !.text = <<s[1]>> \o @]

\* a line made of an ordinary word, one double-quoted region and an ordinary word
DoubleQuotedLine(l) ==
    LET n == PlainPrefixLen(l)
    IN  /\ n < Len(l)
        /\ l[n + 1] = DQ
        /\ IsPlain(DoubleQuotedText(SubSeq(l, n + 2, Len(l))).rest)

DoubleQuotedExpect(l) ==
    LET n == PlainPrefixLen(l)
        r == DoubleQuotedText(SubSeq(l, n + 2, Len(l)))
    IN  OneToken(SubSeq(l, 1, n) \o r.text \o r.rest)

\* C2: on a line with one double-quoted region, terminated or not, a
\* completed iteration has yielded the single token in which \\ and \" stand for \ and ",
\* every other backslash is kept, and the region ends only at an unescaped
\* double quote or at the end of the input.
C2_DoubleQuoteEscapes ==
    (DoubleQuotedLine(whole) /\ pc = "exhausted") =>
        toks = DoubleQuotedExpect(whole)

---------------------------------------------------------------------------
\* a line `pre \ c post` or `pre \ c post SP word`, where pre, post and word
\* are ordinary words (word not empty) and c is any character
EscapedLine(l) ==
    LET n == PlainPrefixLen(l)
    IN  /\ n + 2 <= Len(l)
        /\ l[n + 1] = BS
        /\ LET after == SubSeq(l, n + 3, Len(l))
               m     == PlainPrefixLen(after)
           IN  \/ m = Len(after)
               \/ /\ after[m + 1] = SP
                  /\ m + 1 < Len(after)
                  /\ IsPlain(SubSeq(after, m + 2, Len(after)))

EscapedChar(l) == l[PlainPrefixLen(l) + 2]

EscapedExpect(l) ==
    LET n     == PlainPrefixLen(l)
        after == SubSeq(l, n + 3, Len(l))
        m     == PlainPrefixLen(after)
        first == SubSeq(l, 1, n) \o <<l[n + 2]>> \o SubSeq(after, 1, m)
    IN  IF m = Len(after)
        THEN <<first>>
        ELSE <<first, SubSeq(after, m + 2, Len(after))>>

\* C3: a backslash outside any quote that is followed by a character c is
\* removed, and c stays literally in the same token: it does not end the
\* token, open a quoted region or escape what follows.
C3_EscapeOutsideQuotes ==
    (EscapedLine(whole) /\ Finished) =>
        (pc = "exhausted" /\ toks = EscapedExpect(whole))

\* C3 witness: an escaped blank, quote or backslash ended up inside a token
C3_Witness ==
    /\ EscapedLine(whole)
    /\ pc = "exhausted"
    /\ EscapedChar(whole) \in {SP, SQ, DQ, BS}
    /\ Len(whole) >= 3
    /\ Len(toks[1]) = Len(whole) - 1

---------------------------------------------------------------------------
RECURSIVE FirstIndexOf(_, _)
\* the 1-based place of the first c in s, or Len(s) + 1
FirstIndexOf(s, c) ==
    IF Len(s) = 0 \/ s[1] = c THEN 1 ELSE 1 + FirstIndexOf(Tail(s), c)

\* a line `pre 'body' post` or the unterminated `pre 'body`, where pre and
\* post are ordinary words and body holds no single quote
SingleQuotedLine(l) ==
    LET n == PlainPrefixLen(l)
    IN  /\ n < Len(l)
        /\ l[n + 1] = SQ
        /\ LET after == SubSeq(l, n + 2, Len(l))
               q     == FirstIndexOf(after, SQ)
           IN  IsPlain(SubSeq(after, q + 1, Len(after)))

SingleQuotedBody(l) ==
    LET n     == PlainPrefixLen(l)
        after == SubSeq(l, n + 2, Len(l))
    IN  SubSeq(after, 1, FirstIndexOf(after, SQ) - 1)

SingleQuotedExpect(l) ==
    LET n     == PlainPrefixLen(l)
        after == SubSeq(l, n + 2, Len(l))
        q     == FirstIndexOf(after, SQ)
    IN  OneToken(SubSeq(l, 1, n) \o SubSeq(after, 1, q - 1)
                     \o SubSeq(after, q + 1, Len(after)))

\* C4: every character between an opening single quote and the next single
\* quote (or the end of the input) is in the token unchanged; only the two
\* single quotes are removed.
C4_SingleQuoteVerbatim ==
    (SingleQuotedLine(whole) /\ Finished) =>
        (pc = "exhausted" /\ toks = SingleQuotedExpect(whole))

\* C4 witness: a body with a double quote, a backslash or a blank was kept
C4_Witness ==
    /\ SingleQuotedLine(whole)
    /\ pc = "exhausted"
    /\ \E k \in 1..Len(SingleQuotedBody(whole)) :
           SingleQuotedBody(whole)[k] \in {DQ, BS}
    /\ \E k \in 1..Len(SingleQuotedBody(whole)) : SingleQuotedBody(whole)[k] = SP
    /\ toks = <<SingleQuotedBody(whole)>>

---------------------------------------------------------------------------
RECURSIVE BlankLine(_)
\* a line of unquoted whitespace and empty quote pairs only
BlankLine(l) ==
    \/ Len(l) = 0
    \/ IsScanSpace(l[1]) /\ BlankLine(Tail(l))
    \/ /\ Len(l) >= 2
       /\ l[1] \in {DQ, SQ}
       /\ l[2] = l[1]
       /\ BlankLine(SubSeq(l, 3, Len(l)))

\* C5: no yielded token is empty, and a line of unquoted whitespace and
\* empty quote pairs yields no token at all.
C5_NoEmptyToken ==
    /\ \A k \in 1..Len(toks) : Len(toks[k]) > 0
    /\ (BlankLine(whole) /\ Finished) => (pc = "exhausted" /\ toks = <<>>)

\* C5 witness: the iteration ended with a token although some scans gave an
\* empty one (whitespace or an empty quote pair)
C5_Witness ==
    /\ pc = "exhausted"
    /\ Len(toks) > 0
    /\ Len(spans) > Len(toks)
    /\ \E k \in 1..(Len(whole) - 1) : whole[k] = DQ /\ whole[k + 1] = DQ

---------------------------------------------------------------------------
RECURSIVE SegmentTokens(_, _)
\* The tokens of a line made of ordinary words, escaped characters and
\* terminated quoted words (between single quotes anything but a single
\* quote, between double quotes anything but a double quote or a backslash),
\* split at the unquoted, unescaped blanks only; cur is the text of the token
\* being built.  ok is FALSE when the line is not of that form.
SegmentTokens(s, cur) ==
    IF Len(s) = 0
    THEN [ok |-> TRUE, toks |-> OneToken(cur)]
    ELSE CASE IsScanSpace(s[1]) ->
                LET r == SegmentTokens(Tail(s), <<>>)
                IN  [r EXCEPT !.toks = OneToken(cur) \o @]
           [] s[1] \in {SQ, DQ} ->
                LET after == Tail(s)
                    q     == FirstIndexOf(after, s[1])
                    body  == SubSeq(after, 1, q - 1)
                IN  IF q > Len(after)
                       \/ (s[1] = DQ /\ \E k \in 1..Len(body) : body[k] = BS)
                    THEN [ok |-> FALSE, toks |-> <<>>]
                    ELSE SegmentTokens(SubSeq(after, q + 1, Len(after)), cur \o body)
           [] s[1] = BS ->
                IF Len(s) < 2
                THEN [ok |-> FALSE, toks |-> <<>>]
                ELSE SegmentTokens(SubSeq(s, 3, Len(s)), cur \o <<s[2]>>)
           [] OTHER -> SegmentTokens(Tail(s), cur \o <<s[1]>>)

SegmentLine(l) == SegmentTokens(l, <<>>).ok

\* C6: quoted and unquoted segments with no unquoted whitespace between them
\* form one token, the concatenation of their contents in order; only an
\* unquoted, unescaped blank separates two tokens.
C6_AdjacentSegmentsJoin ==
    (SegmentLine(whole) /\ Finished) =>
        (pc = "exhausted" /\ toks = SegmentTokens(whole, <<>>).toks)

\* C6 witness: a closing quote directly followed by an opening quote or by
\* an ordinary character, and the text around it in one token
C6_Witness ==
    /\ SegmentLine(whole)
    /\ pc = "exhausted"
    /\ Len(toks) = 1
    /\ \E k \in 2..(Len(whole) - 1) :
          /\ whole[k] \in {SQ, DQ}
          /\ IsOrdinary(whole[k - 1])
          /\ IsOrdinary(whole[k + 1]) \/ whole[k + 1] \in {SQ, DQ}
          /\ Len(toks[1]) >= 2

---------------------------------------------------------------------------
Scenario1 == <<"e", "c", "h", "o", SP, "h", "e", "l", "l", "o", SP, SP, SP, "w", "o", "r", "l", "d", SQ, "h", "i", "i", SQ>>

Word_hello == <<"h", "e", "l", "l", "o">>
Word_world == <<"w", "o", "r", "l", "d">>
Word_hii == <<"h", "i", "i">>

\* C7 as stated: `echo hello   world'hii'` is Echo("hello", "world", "hii")
C7_ScenarioThreeArgs ==
    (whole = Scenario1 /\ cmd # NoCmd) =>
        cmd = MkCmd("Echo", 0, <<>>, <<Word_hello, Word_world, Word_hii>>)

\* C7 as amended: `echo hello   world'hii'` is Echo with the two arguments
\* "hello" and "worldhii": the quoted hii joins the word before it
C7_ScenarioTwoArgs ==
    (whole = Scenario1 /\ cmd # NoCmd) =>
        cmd = MkCmd("Echo", 0, <<>>, <<Word_hello, Word_world \o Word_hii>>)

\* C7 witness: the scenario line has been classified
C7_Witness == whole = Scenario1 /\ cmd # NoCmd /\ cmd.kind = "cmd"

---------------------------------------------------------------------------
Second(t, default) == IF Len(t) >= 2 THEN t[2] ELSE default

\* the table of the claim: the command for a non-empty token list
ClaimedCommand(t) ==
    CASE t[1] = Word_echo -> MkCmd("Echo", 0, <<>>, Tail(t))
      [] t[1] = Word_cat  -> MkCmd("Cat", 0, <<>>, Tail(t))
      [] t[1] = Word_type -> MkCmd("Type", 0, Second(t, <<>>), <<>>)
      [] t[1] = Word_pwd  -> MkCmd("Pwd", 0, <<>>, <<>>)
      [] t[1] = Word_cd   -> MkCmd("Cd", 0, Second(t, <<"~">>), <<>>)
      [] OTHER            -> MkCmd("Other", 0, t[1], Tail(t))

Classified == pc = "exhausted" /\ Len(toks) > 0 /\ cmd # NoCmd

\* C8 as stated: the command is the one the table gives for the tokens of
\* the line, External for every first token other than echo, cat, type, pwd, cd
C8_ClassifiedByFirstToken == Classified => cmd = ClaimedCommand(toks)

\* C8 as amended: as stated, except that the first token `exit` gives Exit
C8_ClassifiedByFirstTokenOrExit ==
    Classified =>
        IF toks[1] = Word_exit
        THEN cmd.kind = "cmd" /\ cmd.tag = "Exit" /\ cmd.name = <<>> /\ cmd.args = <<>>
        ELSE cmd = ClaimedCommand(toks)

\* C8 witness: a command with two different arguments, one holding a blank
C8_Witness ==
    /\ Classified
    /\ cmd.kind = "cmd"
    /\ cmd.tag \in {"Echo", "Cat", "Other"}
    /\ Len(cmd.args) = 2
    /\ cmd.args[1] # cmd.args[2]
    /\ \E k \in 1..Len(cmd.args[2]) : cmd.args[2][k] = SP

---------------------------------------------------------------------------
\* C9: a line the read loop passes on (main.rs:14, not all whitespace),
\* also one whose completed tokenization is empty, is classified as a Command
\* or as the empty-command failure, never a panic.
C9_NoCrashOnPassedLine ==
    (~TrimIsEmpty(whole) /\ pc = "exhausted" /\ cmd # NoCmd) =>
        cmd.kind \in {"cmd", "empty"}

---------------------------------------------------------------------------
RedirectOps == {<<">">>, <<"1", ">">>, <<">", ">">>, <<"1", ">", ">">>,
                <<"2", ">">>, <<"2", ">", ">">>}

\* C10: neither a redirection operator token nor the token that follows it
\* is an argument of the Command.
C10_RedirectionNotInArgs ==
    (cmd # NoCmd /\ cmd.kind = "cmd") =>
        \A k \in 1..Len(cmd.args) :
            /\ cmd.args[k] \notin RedirectOps
            /\ k > 1 => cmd.args[k - 1] \notin RedirectOps

---------------------------------------------------------------------------
(* C11: exit *)

\* the tokens of the line read last, when its tokenization completes
LastTokens == Collect(TrimStart(whole), 0, <<>>)

\* a text that reads as a decimal integer: an optional sign, then digits
IsIntegerText(s) ==
    /\ Len(s) > 0
    /\ IF s[1] \in {"-", "+"}
       THEN Len(s) > 1 /\ \A k \in 2..Len(s) : IsDigit(s[k])
       ELSE \A k \in 1..Len(s) : IsDigit(s[k])

RECURSIVE DecimalValue(_)
DecimalValue(s) ==
    IF Len(s) = 0
    THEN 0
    ELSE DecimalValue(SubSeq(s, 1, Len(s) - 1)) * 10 + DigitValue(s[Len(s)])

IntegerValue(s) ==
    CASE s[1] = "-" -> 0 - DecimalValue(Tail(s))
      [] s[1] = "+" -> DecimalValue(Tail(s))
      [] OTHER -> DecimalValue(s)

\* the status C11 gives an exit line with these tokens
ClaimedStatus(ts) ==
    IF Len(ts) >= 2 /\ IsIntegerText(ts[2]) THEN IntegerValue(ts[2]) ELSE 0

\* the line read last was an exit line
ExitLineRead ==
    /\ sh.nread > 0
    /\ ~TrimIsEmpty(whole)
    /\ LastTokens.ok
    /\ Len(LastTokens.toks) >= 1
    /\ LastTokens.toks[1] = Word_exit

\* after an exit line the process has ended with the claimed status, and the
\* last thing on stdout is what the line before left: no prompt follows
ExitedAsClaimed ==
    ExitLineRead =>
        /\ sh.status = "exited"
        /\ sh.code = ClaimedStatus(LastTokens.toks)
        /\ Len(sh.out) = 2 * sh.nread
        /\ sh.out[Len(sh.out)] = <<>>

\* C11: an exit line ends the shell process with the status its second token
\* reads as, 0 when that token is missing or no integer, whatever tokens
\* follow; once the process has exited no line is read or executed and
\* nothing more is written
C11_ExitEndsShell ==
    []ExitedAsClaimed /\ [][sh.status = "exited" => sh' = sh]_vars

\* exit 7 as the second line of a session
C11_Witness ==
    /\ sh.status = "exited"
    /\ sh.code = 7
    /\ sh.nread = 2
    /\ Len(LastTokens.toks) = 3

---------------------------------------------------------------------------
(* C12: type *)

\* what the execution of the line read last wrote to stdout
LastWrote ==
    IF sh.status = "running"
    THEN sh.out[Len(sh.out) - 1]
    ELSE sh.out[Len(sh.out)]

\* the Cmd built from the line read last has this tag
LastCmdIs(tag) == sh.nread > 0 /\ cmd # NoCmd /\ cmd # Panicked /\ cmd.tag = tag

\* the verbs is_builtin holds for
BuiltinVerbs == {Word_exit, Word_echo, Word_type, Word_pwd, Word_cd}

\* the line C12 gives for Type(name), found being what the resolver returns
ClaimedTypeLine(name, found) ==
    CASE name \in BuiltinVerbs -> name \o Lit_is_a_shell_builtin
      [] found.some -> name \o Lit_is \o found.v
      [] OTHER -> name \o Lit_not_found

\* C12: for every Type(name), the empty name and names with blanks, quotes or
\* backslashes included, execution completes and writes exactly one line:
\* `<name> is a shell builtin` only when name is a builtin verb, else
\* `<name> is <path>` when the resolver finds name, else `<name>: not found`
C12_TypeWritesOneLine ==
    LastCmdIs("Type") =>
        /\ sh.status = "running"
        /\ LastWrote = ClaimedTypeLine(cmd.name, find_path(env.path, cmd.name)) \o <<NL>>

---------------------------------------------------------------------------
(* C13: cd *)

\* the directory Cd(path) is to change to: the value of HOME for `~`
CdTarget(path) == IF path = <<"~">> THEN env.home.v ELSE path

\* Cd(path) names a directory that does not exist
CdCannotChange(path) ==
    /\ path = <<"~">> => env.home.some
    /\ CdTarget(path) \notin env.dirs

\* the step reads a line that is a Cd whose change of directory fails
FailedCdStep ==
    /\ sh'.nread = sh.nread + 1
    /\ cmd' # NoCmd
    /\ cmd' # Panicked
    /\ cmd'.tag = "Cd"
    /\ CdCannotChange(cmd'.name)

\* C13: for every Cd(path), `~` included, a failed change of directory
\* leaves the working directory as it was, writes the line
\* `cd: <path>: No such file or directory`, and leaves the shell running
\* with the next prompt written
C13_CdFailureReported ==
    [][FailedCdStep =>
          /\ sh'.cwd = sh.cwd
          /\ sh'.status = "running"
          /\ sh'.out = sh.out \o <<Lit_cd \o cmd'.name \o Lit_no_such \o <<NL>>, Prompt>>]_vars

---------------------------------------------------------------------------
(* C14: user errors *)

\* the step reads a line that builds a Cmd of this tag
StepBuilds(tag) ==
    /\ sh'.nread = sh.nread + 1
    /\ cmd' # NoCmd
    /\ cmd' # Panicked
    /\ cmd'.tag = tag

\* the step reads a cat line one of whose paths does not open
CatFailsStep ==
    /\ StepBuilds("Cat")
    /\ \E k \in 1..Len(cmd'.args) : cmd'.args[k] \notin DOMAIN env.files

\* the step reads a command line whose name the resolver does not find
UnresolvedStep ==
    /\ StepBuilds("Other")
    /\ ~find_path(env.path, cmd'.name).some

\* the shell goes on: the next prompt is the last thing written, and the
\* loop is ready for the next line
GoesOn == sh'.status = "running" /\ sh'.out[Len(sh'.out)] = Prompt

\* C14: a user error never ends the session: after a cat whose path cannot
\* be opened, and after a command whose name cannot be resolved, which writes
\* `<name>: command not found` and starts no child, the next prompt is
\* written and the shell reads on
C14_UserErrorGoesOn ==
    [][/\ CatFailsStep => GoesOn
       /\ UnresolvedStep =>
             /\ GoesOn
             /\ sh'.out = sh.out \o <<cmd'.name \o Lit_command_not_found \o <<NL>>, Prompt>>
             /\ sh'.children = sh.children]_vars

---------------------------------------------------------------------------
(* C15: the arguments of a child *)

\* the step reads a command line whose name the resolver finds
ResolvedStep ==
    /\ StepBuilds("Other")
    /\ find_path(env.path, cmd'.name).some

\* C15: when External(name, args) resolves, the child is started with
\* exactly the tokens of args as its arguments: one argument for each token,
\* in the same order and with the same text
C15_ChildGetsArgs ==
    [][ResolvedStep =>
          sh'.children = sh.children \o
              <<[path |-> find_path(env.path, cmd'.name).v, argv |-> cmd'.args]>>]_vars

---------------------------------------------------------------------------
(* C16: the search of PATH *)

RECURSIVE FirstReadableMatch(_, _)
\* the entry named value of the first readable directory that holds one
FirstReadableMatch(dirs, value) ==
    IF Len(dirs) = 0
    THEN None
    ELSE IF dirs[1].readable /\ value \in dirs[1].entries
         THEN Some(dirs[1].name \o <<"/">> \o value)
         ELSE FirstReadableMatch(Tail(dirs), value)

\* C16: find_path returns the entry named name of the first directory, in
\* PATH order, that holds one; a directory that cannot be read counts as
\* holding none and the search goes on, so the result is None only when no
\* readable directory of PATH holds name
C16_FirstMatchInPathOrder ==
    ret # NoRet => ret = FirstReadableMatch(arg.dirs, arg.value)

---------------------------------------------------------------------------
(* C17: what remove_unwanted keeps *)

\* the positions a drop list names
Dropped(remove) == {remove[k] : k \in 1..Len(remove)}

RECURSIVE KeptFrom(_, _, _)
\* the characters of value at offsets off, off + 1, ... that are not in drop
KeptFrom(value, drop, off) ==
    IF off >= Len(value)
    THEN <<>>
    ELSE IF off \in drop
         THEN KeptFrom(value, drop, off + 1)
         ELSE <<value[off + 1]>> \o KeptFrom(value, drop, off + 1)

\* C17: for every raw text and every strictly ascending list of drop
\* positions, positions at or past the end included, remove_unwanted returns
\* exactly the characters of raw whose offsets are not in the list, in their
\* order; with an empty list it returns raw
C17_KeepsUndropped ==
    ret # NoRet =>
        /\ ~ret.panic
        /\ ret.text = KeptFrom(arg.value, Dropped(arg.remove), 0)
        /\ Len(arg.remove) = 0 => ret.text = arg.value

\* a text is returned with a character dropped from its front, one from its
\* inside, and a drop position past its end ignored
C17_Witness ==
    /\ ret # NoRet
    /\ Len(arg.value) = 3
    /\ arg.remove = <<0, 2, 4>>
    /\ Len(ret.text) = 1

---------------------------------------------------------------------------
(* C20: borrowed or owned *)

RECURSIVE LeadingDrops(_, _)
\* the length of the maximal run of drop positions 0, 1, ...
LeadingDrops(drop, n) == IF n \in drop THEN LeadingDrops(drop, n + 1) ELSE n

RECURSIVE TrailingDrops(_, _, _)
\* the length of the maximal run of drop positions len - 1, len - 2, ...
TrailingDrops(drop, len, n) ==
    IF n < len /\ (len - 1 - n) \in drop
    THEN TrailingDrops(drop, len, n + 1)
    ELSE n

\* some drop position lies inside the span the two runs leave
DropInsideTrimmed(value, drop) ==
    \E p \in drop :
        /\ p >= LeadingDrops(drop, 0)
        /\ p <= Len(value) - 1 - TrailingDrops(drop, Len(value), 0)

\* C20: remove_unwanted strips the maximal run of drop positions at the start
\* and the maximal run at the end of raw, and returns a borrowed slice
\* whenever no drop position is left inside the trimmed span: the result is
\* owned only when some drop position lies inside it (stated here for drop
\* positions that are offsets of raw)
C20_BorrowedUnlessDropInside ==
    (ret # NoRet /\ \A p \in Dropped(arg.remove) : p < Len(arg.value)) =>
        (ret.owned <=> DropInsideTrimmed(arg.value, Dropped(arg.remove)))

---------------------------------------------------------------------------
(* C18: the tokenizer terminates *)

\* at most one scan and one token for each character, and the cursor inside
\* the line
ScansBounded ==
    /\ Len(spans) <= Len(whole)
    /\ Len(toks) <= Len(whole)
    /\ start <= Len(whole)

\* a turn that scans without a panic moves the cursor on by at least one, and
\* the loop goes on only after such a turn, with the cursor short of the end
\* before it
TurnAdvances ==
    /\ (Len(spans') > Len(spans) /\ pc' # "panicked") => start' >= start + 1
    /\ (pc = "iterating" /\ pc' = "iterating") =>
          /\ Len(spans') > Len(spans)
          /\ start < Len(whole)

\* C18: every scanning step on a non-empty remainder advances the cursor by
\* at least one position, so a line of n characters is done after at most n
\* scanning steps and yields at most n tokens, and next() never loops forever
C18_ScanAdvances == []ScansBounded /\ [][TurnAdvances]_vars

\* a line is exhausted after more scans than tokens, the cursor at its end
C18_Witness ==
    /\ pc = "exhausted"
    /\ Len(toks) >= 2
    /\ Len(spans) > Len(toks)
    /\ start = Len(whole)

---------------------------------------------------------------------------
(* C19: characters of more than one byte *)

\* the text with a one-byte letter in the place of every two-byte character
Narrow(s) == [k \in 1..Len(s) |-> IF s[k] = Wide THEN "w" ELSE s[k]]

\* the text with the two-byte character back in the place of that letter
Widen(s) == [k \in 1..Len(s) |-> IF s[k] = "w" THEN Wide ELSE s[k]]

\* the tokens of the line written in one-byte characters
NarrowTokens == Collect(Narrow(whole), 0, <<>>)

\* the remainder the k-th scan was made on
ScannedInput(k) == SliceFrom(whole, spans[k].from)

\* the token_end of every scan, and every drop position before it, is a byte
\* offset on a character boundary of the remainder
OffsetsOnBoundaries ==
    \A k \in 1..Len(spans) :
        /\ IsBoundary(ScannedInput(k), spans[k].end)
        /\ \A p \in Dropped(handle_args(ScannedInput(k)).remove) :
              p < spans[k].end => IsBoundary(ScannedInput(k), p)

\* C19: on a line with characters of more than one byte every token_end and
\* every drop position is a byte offset on a character boundary of the
\* remaining input, so no slice fails and the tokens are those of the line,
\* character for character
C19_MultibyteOffsets ==
    NarrowTokens.ok =>
        /\ pc # "panicked"
        /\ OffsetsOnBoundaries
        /\ pc = "exhausted" =>
              toks = [k \in 1..Len(NarrowTokens.toks) |-> Widen(NarrowTokens.toks[k])]

====
